---- MODULE Spec2Model ----
(***************************************************************************)
(* Model of inference_gym/targets/brownian_motion.py: the Brownian Motion  *)
(* prior coroutines, the masked log-likelihood, and the two model classes  *)
(* built from them.                                                        *)
(*                                                                         *)
(* Numbers.  Latent values and scales are integers.  An entry of locs is a *)
(* float record [k, v]: k = "fin" (the finite value v), "nan" or "inf".    *)
(* A log-probability is kept exactly, as the coefficients of               *)
(*      - q/8  -  l * ln 2  -  c * (1/2) ln(2 pi)                          *)
(* in a record [k, q, l, c] with k = "val"; k = "nan" / "neginf" are the   *)
(* float results NaN and -infinity, k = "err" an exception raised instead  *)
(* of a return.  Scales range over {1, 2}, so q, l, c are integers.        *)
(***************************************************************************)
EXTENDS Integers, Sequences, FiniteSets, TLC

VARIABLES
  cls,                     \* which class / prior: "BrownianMotion" | "BrownianMotionUnknownScales"
  locs,                    \* the locs array
  innovation_noise_scale,  \* argument of the constructor / prior (None when unknown)
  observation_noise_scale, \* argument of the constructor / likelihood (None when unknown)
  prior_dist,              \* self._prior_dist: the partial application stored at construction
  log_likelihood_fn,       \* self._log_likelihood_fn: the partial application stored at construction
  values,                  \* the value tuple an operation is called with (the caller's object)
  result,                  \* what the last likelihood evaluation returned
  ext,                     \* what the last 'identity' sample transformation returned
  first,                   \* the first evaluation made on an object: [value, result]
  pc,                      \* where the prior coroutine is suspended
  t,                       \* loop variable of brownian_motion_prior_fn
  new,                     \* local `new` of brownian_motion_prior_fn
  scale,                   \* local innovation_noise_scale of the running coroutine
  dists,                   \* the distributions yielded so far, in order
  sent                     \* the sampled values sent back into the coroutine, in order

vars == <<cls, locs, innovation_noise_scale, observation_noise_scale, prior_dist,
          log_likelihood_fn, values, result, ext, first, pc, t, new, scale, dists, sent>>

\* Largest length of locs explored.
MaxN == 2
\* Largest num_timesteps the prior coroutine is run with.
MaxT == 3

\* Python's None, for a scale that is not passed (scales themselves are positive).
None == 0

Classes == {"BrownianMotion", "BrownianMotionUnknownScales"}
ScaleVals == {1, 2}
LatentVals == {1, 2}

---------------------------------------------------------------------------
\* Floats

F(v) == [k |-> "fin", v |-> v]
NaN == [k |-> "nan", v |-> 0]
PosInf == [k |-> "inf", v |-> 0]
LocVals == {NaN, PosInf, F(0), F(1)}

SeqsUpTo(S, lo, hi) == UNION {[1..n -> S] : n \in lo..hi}

is_finite_always(x) == TRUE
\* tf.math.is_finite
is_finite(x) == x.k = "fin"

Zero == [k |-> "val", q |-> 0, l |-> 0, c |-> 0]
NanLp == [k |-> "nan", q |-> 0, l |-> 0, c |-> 0]
NegInfLp == [k |-> "neginf", q |-> 0, l |-> 0, c |-> 0]
Err == [k |-> "err", q |-> 0, l |-> 0, c |-> 0]

Log2(s) == IF s = 1 THEN 0 ELSE 1

\* tfd.Normal(loc = x, scale = s).log_prob(y):
\*   -(y - x)^2 / (2 s^2) - ln s - (1/2) ln(2 pi)
log_prob(y, x, s) ==
  IF y.k = "nan" THEN NanLp
  ELSE IF y.k = "inf" THEN NegInfLp
  ELSE [k |-> "val", q |-> (y.v - x) * (y.v - x) * (4 \div (s * s)), l |-> Log2(s), c |-> 1]

\* float addition on log-probabilities
Add(a, b) ==
  IF a.k = "nan" \/ b.k = "nan" THEN NanLp
  ELSE IF a.k = "neginf" \/ b.k = "neginf" THEN NegInfLp
  ELSE [k |-> "val", q |-> a.q + b.q, l |-> a.l + b.l, c |-> a.c + b.c]

RECURSIVE reduce_sum(_)
\* tf.reduce_sum(., axis=-1)
reduce_sum(xs) == IF Len(xs) = 0 THEN Zero ELSE Add(xs[1], reduce_sum(Tail(xs)))

\* tf.stack(values, axis=-1) of scalars: component i of the tensor is values[i]
tf_stack(vs) == [i \in 1..Len(vs) |-> vs[i]]

\* numpy-style broadcasting of two vectors of lengths m and n
Broadcastable_equal_only(m, n) == m = n
Broadcastable(m, n) == m = n \/ m = 1 \/ n = 1
BroadcastLen(m, n) == IF m = 1 THEN n ELSE m
At(xs, i) == IF Len(xs) = 1 THEN xs[1] ELSE xs[i]

---------------------------------------------------------------------------
\* brownian_motion_log_likelihood_fn

split_values_first_as_scale(vs, obs) ==
  IF obs = None THEN [obs |-> vs[1], values |-> SubSeq(vs, 3, Len(vs))]
  ELSE [obs |-> obs, values |-> vs]
\* `(_, observation_noise_scale), values = values[:2], values[2:]` when no scale is passed
split_values(vs, obs) ==
  IF obs = None THEN [obs |-> vs[2], values |-> SubSeq(vs, 3, Len(vs))]
  ELSE [obs |-> obs, values |-> vs]

\* tf.where(tf.math.is_finite(locs), locs, 0.)
safe_locs(ls) == [i \in 1..Len(ls) |-> IF is_finite(ls[i]) THEN ls[i] ELSE F(0)]

\* tfd.Normal(loc=latents, scale=observation_noise_scale[..., tf.newaxis]).log_prob(y)
normal_log_prob(latents, obs, y) ==
  [i \in 1..BroadcastLen(Len(latents), Len(y)) |-> log_prob(At(y, i), At(latents, i), obs)]

masked_lps_unmasked(ls, lps) == lps
\* tf.where(tf.math.is_finite(locs), lps, 0.)
masked_lps(ls, lps) ==
  [i \in 1..BroadcastLen(Len(lps), Len(ls)) |-> IF is_finite(At(ls, i)) THEN At(lps, i) ELSE Zero]

brownian_motion_log_likelihood_fn(vs, ls, obs) ==
  IF obs = None /\ Len(vs) < 2 THEN Err
  ELSE LET sp == split_values(vs, obs) IN
       IF Len(sp.values) = 0 THEN Err
       ELSE LET latents == tf_stack(sp.values) IN
            IF ~Broadcastable(Len(latents), Len(ls)) THEN Err
            ELSE reduce_sum(masked_lps(ls, normal_log_prob(latents, sp.obs, safe_locs(ls))))

---------------------------------------------------------------------------
\* The prior coroutines.  A yielded distribution is a record
\* [name, family, loc, scale, root]; root is the Root(...) wrapper.

dist(name, family, loc, sc, root) ==
  [name |-> name, family |-> family, loc |-> loc, scale |-> sc, root |-> root]

\* 'x_{}'.format(t)
x_name(i) == "x_" \o ToString(i)

\* prior_loc = 0.
prior_loc == 0

\* Root(tfd.Normal(loc=prior_loc, scale=innovation_noise_scale, name='x_0'))
x_0_dist(sc) == dist("x_0", "Normal", prior_loc, sc, TRUE)

x_t_dist_at_prior_loc(i, nw, sc) == dist(x_name(i), "Normal", prior_loc, sc, FALSE)
\* tfd.Normal(loc=new, scale=innovation_noise_scale, name='x_{}'.format(t))
x_t_dist(i, nw, sc) == dist(x_name(i), "Normal", nw, sc, FALSE)

\* Root(tfd.LogNormal(0., 2., name=...))
scale_dist(name) == dist(name, "LogNormal", 0, 2, TRUE)

\* locs.shape[0]
shape0(ls) == Len(ls)

\* functools.partial(brownian_motion_prior_fn, ...) / (brownian_motion_unknown_scales_prior_fn, ...)
make_prior_dist(c, ls, inn) ==
  IF c = "BrownianMotion"
  THEN [fn |-> "brownian_motion_prior_fn", num_timesteps |-> shape0(ls),
        innovation_noise_scale |-> inn]
  ELSE [fn |-> "brownian_motion_unknown_scales_prior_fn", num_timesteps |-> shape0(ls),
        innovation_noise_scale |-> None]

\* functools.partial(brownian_motion_log_likelihood_fn, locs=locs[, observation_noise_scale=...])
make_log_likelihood_fn(c, ls, obs) ==
  [locs |-> ls, observation_noise_scale |-> IF c = "BrownianMotion" THEN obs ELSE None]

\* The list of bijectors handed to type(self._prior_dist.dtype)(*...)
event_space_bijector(c, ls) ==
  IF c = "BrownianMotion"
  THEN [i \in 1..shape0(ls) |-> "Identity"]
  ELSE <<"Softplus", "Softplus">> \o [i \in 1..shape0(ls) |-> "Identity"]

\* The coroutine starts: it runs to its first yield.
GenStart ==
  /\ pc = "start"
  /\ IF prior_dist.fn = "brownian_motion_unknown_scales_prior_fn"
     THEN /\ dists' = <<scale_dist("innovation_noise_scale")>>
          /\ pc' = "innovation_noise_scale"
          /\ scale' = scale
     ELSE /\ scale' = prior_dist.innovation_noise_scale
          /\ dists' = <<x_0_dist(prior_dist.innovation_noise_scale)>>
          /\ pc' = "x_0"
  /\ UNCHANGED <<cls, locs, innovation_noise_scale, observation_noise_scale, prior_dist,
                 log_likelihood_fn, values, result, ext, first, t, new, sent>>

\* innovation_noise_scale = yield Root(LogNormal ...): the sample is bound, the next
\* LogNormal is yielded.
SendInnovationScale ==
  /\ pc = "innovation_noise_scale"
  /\ \E v \in ScaleVals :
       /\ sent' = Append(sent, v)
       /\ scale' = v
  /\ dists' = Append(dists, scale_dist("observation_noise_scale"))
  /\ pc' = "observation_noise_scale"
  /\ UNCHANGED <<cls, locs, innovation_noise_scale, observation_noise_scale, prior_dist,
                 log_likelihood_fn, values, result, ext, first, t, new>>

\* _ = yield Root(LogNormal ...): the sample is dropped; `yield from` enters
\* brownian_motion_prior_fn, which yields x_0.
SendObservationScale ==
  /\ pc = "observation_noise_scale"
  /\ \E v \in ScaleVals : sent' = Append(sent, v)
  /\ dists' = Append(dists, x_0_dist(scale))
  /\ pc' = "x_0"
  /\ UNCHANGED <<cls, locs, innovation_noise_scale, observation_noise_scale, prior_dist,
                 log_likelihood_fn, values, result, ext, first, t, new, scale>>

\* new = yield ...; then the next iteration of `for t in range(1, num_timesteps)`,
\* or the end of the coroutine.
SendLatent ==
  /\ pc \in {"x_0", "x_t"}
  /\ \E v \in LatentVals :
       /\ sent' = Append(sent, v)
       /\ new' = v
       /\ IF t + 1 < prior_dist.num_timesteps
          THEN /\ t' = t + 1
               /\ dists' = Append(dists, x_t_dist(t + 1, v, scale))
               /\ pc' = "x_t"
          ELSE /\ t' = t
               /\ dists' = dists
               /\ pc' = "done"
  /\ UNCHANGED <<cls, locs, innovation_noise_scale, observation_noise_scale, prior_dist,
                 log_likelihood_fn, values, result, ext, first, scale>>

---------------------------------------------------------------------------
\* The 'identity' sample transformations

drop_first(ps) == SubSeq(ps, 2, Len(ps))
\* params[2:]
params_from_2(ps) == SubSeq(ps, 3, Len(ps))

\* _ext_identity of the two classes; ok = FALSE when an exception is raised
ext_identity(c, ps) ==
  IF c = "BrownianMotion"
  THEN IF Len(ps) = 0 THEN [ok |-> FALSE, out |-> <<>>]
       ELSE [ok |-> TRUE, out |-> tf_stack(ps)]
  ELSE IF Len(ps) < 3 THEN [ok |-> FALSE, out |-> <<>>]
       ELSE [ok |-> TRUE,
             out |-> [innovation_noise_scale |-> ps[1],
                      observation_noise_scale |-> ps[2],
                      locs |-> tf_stack(params_from_2(ps))]]

---------------------------------------------------------------------------
\* Specification SpecPrior: an object is constructed and its prior coroutine is driven
\* to its end, a sample being sent back for every distribution it yields.

NoFirst == [set |-> FALSE, value |-> <<>>, result |-> Zero]
NoExt == [ok |-> FALSE, out |-> <<>>]

InitPrior ==
  /\ cls \in Classes
  /\ locs \in SeqsUpTo(LocVals, 0, MaxT)
  /\ innovation_noise_scale \in (IF cls = "BrownianMotion" THEN ScaleVals ELSE {None})
  /\ observation_noise_scale \in (IF cls = "BrownianMotion" THEN ScaleVals ELSE {None})
  /\ prior_dist = make_prior_dist(cls, locs, innovation_noise_scale)
  /\ log_likelihood_fn = make_log_likelihood_fn(cls, locs, observation_noise_scale)
  /\ values = <<>>
  /\ result = Zero
  /\ ext = NoExt
  /\ first = NoFirst
  /\ pc = "start"
  /\ t = 0
  /\ new = 0
  /\ scale = None
  /\ dists = <<>>
  /\ sent = <<>>

NextPrior == GenStart \/ SendInnovationScale \/ SendObservationScale \/ SendLatent

SpecPrior == InitPrior /\ [][NextPrior]_vars

---------------------------------------------------------------------------
\* Specification SpecFn: the two pure functions applied to arguments drawn from
\* bounded sets.  The classes pass the scale exactly as here: BrownianMotion binds
\* observation_noise_scale, BrownianMotionUnknownScales does not.

InitFn ==
  /\ cls \in Classes
  /\ locs \in SeqsUpTo(LocVals, 1, MaxN)
  /\ innovation_noise_scale = None
  /\ observation_noise_scale \in (IF cls = "BrownianMotion" THEN ScaleVals ELSE {None})
  /\ prior_dist = make_prior_dist(cls, locs, innovation_noise_scale)
  /\ log_likelihood_fn = make_log_likelihood_fn(cls, locs, observation_noise_scale)
  /\ values \in SeqsUpTo(LatentVals, 0, MaxN + 3)
  /\ result = Zero
  /\ ext = NoExt
  /\ first = NoFirst
  /\ pc = "args"
  /\ t = 0
  /\ new = 0
  /\ scale = None
  /\ dists = <<>>
  /\ sent = <<>>

CallLogLikelihoodFn ==
  /\ pc = "args"
  /\ result' = brownian_motion_log_likelihood_fn(values, locs, observation_noise_scale)
  /\ pc' = "log_likelihood"
  /\ UNCHANGED <<cls, locs, innovation_noise_scale, observation_noise_scale, prior_dist,
                 log_likelihood_fn, values, ext, first, t, new, scale, dists, sent>>

CallExtIdentity ==
  /\ pc = "args"
  /\ ext' = ext_identity(cls, values)
  /\ pc' = "identity"
  /\ UNCHANGED <<cls, locs, innovation_noise_scale, observation_noise_scale, prior_dist,
                 log_likelihood_fn, values, result, first, t, new, scale, dists, sent>>

NextFn == CallLogLikelihoodFn \/ CallExtIdentity

SpecFn == InitFn /\ [][NextFn]_vars

---------------------------------------------------------------------------
\* Properties of the prior coroutines (SpecPrior)

\* Number of distributions the unknown-scales prior yields before the base process.
Offset == IF cls = "BrownianMotion" THEN 0 ELSE 2
\* The distributions the base process brownian_motion_prior_fn has yielded so far,
\* and the samples sent back for them.
BaseDists == SubSeq(dists, Offset + 1, Len(dists))
BaseSent == SubSeq(sent, Offset + 1, Len(sent))
\* The scale the base process was called with.
BaseScale == IF cls = "BrownianMotion" THEN innovation_noise_scale ELSE sent[1]

\* C1 (as claimed): when the prior of a BrownianMotion built from locs has run to its
\* end, it has yielded exactly len(locs) latent variables, named x_0 .. x_{n-1}, for
\* every length n >= 0.
C1_LatentCountEqualsLocsLength ==
  (pc = "done" /\ cls = "BrownianMotion") =>
    /\ Len(dists) = Len(locs)
    /\ \A i \in 1..Len(dists) : dists[i].name = x_name(i - 1)

\* What the code does instead: max(n, 1) latent variables (x_0 is yielded before the
\* loop bound is looked at).
C1_CodeYieldsAtLeastOne ==
  (pc = "done" /\ cls = "BrownianMotion") =>
    /\ Len(dists) = (IF Len(locs) = 0 THEN 1 ELSE Len(locs))
    /\ \A i \in 1..Len(dists) : dists[i].name = x_name(i - 1)

\* C4: in the sequence brownian_motion_prior_fn yields, x_0 is a Root Normal centered
\* at zero; every later x_t is a non-Root Normal centered at the value sent back for
\* x_{t-1}; all use the scale the process was called with; names come in increasing
\* timestep order.
C4_MarkovChainOfNormals ==
  /\ Len(BaseDists) >= 1 =>
       BaseDists[1] = [name |-> "x_0", family |-> "Normal", loc |-> 0,
                       scale |-> BaseScale, root |-> TRUE]
  /\ \A i \in 2..Len(BaseDists) :
       BaseDists[i] = [name |-> "x_" \o ToString(i - 1), family |-> "Normal",
                       loc |-> BaseSent[i - 1], scale |-> BaseScale, root |-> FALSE]

\* C4's case: three timesteps have been generated and the samples sent for x_0 and
\* x_1 differ, so "centered at x_1's sample" and "centered at x_0's sample" differ.
C4_Witness ==
  /\ pc = "done"
  /\ Len(BaseDists) = 3
  /\ BaseSent[1] # BaseSent[2]
  /\ BaseDists[3].loc = BaseSent[2]

\* C5 (as claimed): the unknown-scales prior yields a Root LogNormal(0, 2) named
\* innovation_noise_scale, then a Root LogNormal(0, 2) named observation_noise_scale,
\* then the base process run with the first sample as its scale (the second sample
\* appears nowhere), num_timesteps + 2 variables in all.
C5_UnknownScalesSequence ==
  (pc = "done" /\ cls = "BrownianMotionUnknownScales") =>
    /\ Len(dists) = prior_dist.num_timesteps + 2
    /\ dists[1] = [name |-> "innovation_noise_scale", family |-> "LogNormal",
                   loc |-> 0, scale |-> 2, root |-> TRUE]
    /\ dists[2] = [name |-> "observation_noise_scale", family |-> "LogNormal",
                   loc |-> 0, scale |-> 2, root |-> TRUE]
    /\ \A i \in 3..Len(dists) :
         dists[i] = [name |-> "x_" \o ToString(i - 3), family |-> "Normal",
                     loc |-> (IF i = 3 THEN 0 ELSE sent[i - 1]),
                     scale |-> sent[1], root |-> (i = 3)]

\* What the code does instead: the same sequence, of max(num_timesteps, 1) + 2 variables.
C5_CodeSequence ==
  (pc = "done" /\ cls = "BrownianMotionUnknownScales") =>
    /\ Len(dists) = (IF prior_dist.num_timesteps = 0 THEN 1 ELSE prior_dist.num_timesteps) + 2
    /\ dists[1] = [name |-> "innovation_noise_scale", family |-> "LogNormal",
                   loc |-> 0, scale |-> 2, root |-> TRUE]
    /\ dists[2] = [name |-> "observation_noise_scale", family |-> "LogNormal",
                   loc |-> 0, scale |-> 2, root |-> TRUE]
    /\ \A i \in 3..Len(dists) :
         dists[i] = [name |-> "x_" \o ToString(i - 3), family |-> "Normal",
                     loc |-> (IF i = 3 THEN 0 ELSE sent[i - 1]),
                     scale |-> sent[1], root |-> (i = 3)]

\* C6 (as claimed): the default event-space bijector has one component per variable of
\* the joint prior, in order: Softplus for each of the two LogNormal scales, Identity
\* for each latent position, for every length of locs.
C6_BijectorMatchesPrior ==
  pc = "done" =>
    LET b == event_space_bijector(cls, locs) IN
      /\ Len(b) = Len(dists)
      /\ \A i \in 1..Len(b) : (i <= Len(dists)) =>
           b[i] = (IF dists[i].family = "LogNormal" THEN "Softplus" ELSE "Identity")

\* What the code does: the components agree with the prior's variables as far as
\* they go, and they are as many exactly when locs is not empty.
C6_CodeBijector ==
  pc = "done" =>
    LET b == event_space_bijector(cls, locs) IN
      /\ (Len(b) = Len(dists)) <=> (Len(locs) >= 1)
      /\ \A i \in 1..Len(b) :
           b[i] = (IF dists[i].family = "LogNormal" THEN "Softplus" ELSE "Identity")

---------------------------------------------------------------------------
\* Properties of brownian_motion_log_likelihood_fn and _ext_identity (SpecFn)

RECURSIVE SumTerms(_, _)
\* The sum of the terms f[i] over the indices i in S.
SumTerms(f, S) ==
  IF S = {} THEN Zero
  ELSE LET i == CHOOSE j \in S : TRUE IN Add(f[i], SumTerms(f, S \ {i}))

\* The arguments as the claims read them: the number of latent values, latent x_t
\* (t counted from 1) and the observation noise scale.
NumLatents == IF observation_noise_scale = None THEN Len(values) - 2 ELSE Len(values)
LatentAt(i) == IF observation_noise_scale = None THEN values[i + 2] ELSE values[i]
ObsScale == IF observation_noise_scale = None THEN values[2] ELSE observation_noise_scale
Returned == pc = "log_likelihood"
ShapesMatch == NumLatents = Len(locs)

\* The log-density of locs[i] under Normal(x_i, observation noise scale), per timestep.
Densities == [i \in 1..Len(locs) |-> log_prob(locs[i], LatentAt(i), ObsScale)]

\* C2 (as claimed): the result is the sum, over exactly the timesteps whose locs entry
\* is not NaN, of the log-density of locs[t] under Normal(x_t, observation scale).
C2_SumOverNonNan ==
  (Returned /\ ShapesMatch) =>
    result = SumTerms(Densities, {i \in 1..Len(locs) : locs[i].k # "nan"})

\* C2 (amended): the result is one finite scalar, the sum over exactly the timesteps
\* whose locs entry is finite (neither NaN nor infinite) of the log-density of locs[t]
\* under Normal(x_t, observation scale), x_t paired with locs[t].
C2_SumOverFinite ==
  (Returned /\ ShapesMatch) =>
    /\ result.k = "val"
    /\ result = SumTerms(Densities, {i \in 1..Len(locs) : locs[i].k = "fin"})

\* C2's case: an observed, a missing (NaN) and no infinite entry, latents that differ,
\* and a likelihood that has been returned.
C2_Witness ==
  /\ Returned /\ ShapesMatch
  /\ Len(locs) = 2
  /\ locs[1] = NaN /\ locs[2] = F(0)
  /\ LatentAt(1) # LatentAt(2)
  /\ result.c = 1 /\ result.q > 0

\* The inputs that differ from `values` at most in latent values of missing timesteps.
SameButMissing ==
  {v \in [1..Len(values) -> LatentVals] :
     /\ observation_noise_scale = None => (v[1] = values[1] /\ v[2] = values[2])
     /\ \A i \in 1..Len(locs) :
          locs[i] # NaN =>
            (IF observation_noise_scale = None THEN v[i + 2] ELSE v[i]) = LatentAt(i)}

\* The timesteps with an observation, in order, and the input cut down to them.
Observed == {i \in 1..Len(locs) : locs[i] # NaN}
RECURSIVE Keep(_, _, _)
Keep(xs, S, i) ==
  IF i > Len(xs) THEN <<>>
  ELSE (IF i \in S THEN <<xs[i]>> ELSE <<>>) \o Keep(xs, S, i + 1)
ObservedLocs == Keep(locs, Observed, 1)
ObservedValues ==
  IF observation_noise_scale = None
  THEN <<values[1], values[2]>> \o Keep(SubSeq(values, 3, Len(values)), Observed, 1)
  ELSE Keep(values, Observed, 1)

\* C3: missing (NaN) observations do not affect the likelihood: changing the latent
\* values at missing timesteps leaves the result unchanged, leaving the missing
\* timesteps out altogether leaves it unchanged (each contributes exactly zero), and
\* the result is 0 when every entry of locs is missing.
C3_MissingDoNotAffect ==
  (Returned /\ ShapesMatch) =>
    /\ \A v \in SameButMissing :
         brownian_motion_log_likelihood_fn(v, locs, observation_noise_scale) = result
    /\ Observed # {} =>
         brownian_motion_log_likelihood_fn(ObservedValues, ObservedLocs,
                                           observation_noise_scale) = result
    /\ Observed = {} => result = Zero

\* C3's case: a missing timestep next to an observed one, and another input that
\* differs at the missing timestep only.
C3_Witness ==
  /\ Returned /\ ShapesMatch
  /\ Len(locs) = 2 /\ locs[1] = F(1) /\ locs[2] = NaN
  /\ \E v \in SameButMissing : v # values
  /\ result.c = 1

\* C9 (as claimed): when the number of latent values differs from the length of locs,
\* the evaluation ends in an error and returns no log-likelihood.
C9_MismatchAlwaysRaises ==
  (Returned /\ ~ShapesMatch) => result = Err

\* C9 (amended): when the number of latent values differs from the length of locs,
\* the evaluation ends in an error, except that a single latent value, or several
\* latent values against a locs of length one, are broadcast and a log-likelihood is
\* returned.
C9_MismatchRaisesUnlessBroadcast ==
  (Returned /\ ~ShapesMatch) =>
    IF NumLatents >= 1 /\ (NumLatents = 1 \/ Len(locs) = 1)
    THEN /\ result.k = "val"
         /\ result = SumTerms(
              [i \in 1..(IF NumLatents = 1 THEN Len(locs) ELSE NumLatents) |->
                 log_prob(IF Len(locs) = 1 THEN locs[1] ELSE locs[i],
                          IF NumLatents = 1 THEN LatentAt(1) ELSE LatentAt(i),
                          ObsScale)],
              {i \in 1..(IF NumLatents = 1 THEN Len(locs) ELSE NumLatents) :
                 (IF Len(locs) = 1 THEN locs[1] ELSE locs[i]).k = "fin"})
    ELSE result = Err

\* C9's case: three latent values against two observations: the library raises.
C9_Witness ==
  /\ Returned
  /\ NumLatents = 3 /\ Len(locs) = 2
  /\ result = Err

\* C10: without observation_noise_scale the second element of values is the scale,
\* the first has no effect, and element 2 + t is paired with locs[t]; with it, every
\* element is a latent position and element t is paired with locs[t].
C10_SplitOfValues ==
  (Returned /\ ShapesMatch) =>
    IF observation_noise_scale = None
    THEN /\ result = SumTerms([i \in 1..Len(locs) |-> log_prob(locs[i], values[2 + i], values[2])],
                              {i \in 1..Len(locs) : locs[i].k = "fin"})
         /\ \A a \in ScaleVals :
              brownian_motion_log_likelihood_fn(<<a>> \o Tail(values), locs, None) = result
    ELSE result = SumTerms([i \in 1..Len(locs) |-> log_prob(locs[i], values[i],
                                                            observation_noise_scale)],
                           {i \in 1..Len(locs) : locs[i].k = "fin"})

\* C10's case: no scale passed, first and second element differ, two observed timesteps.
C10_Witness ==
  /\ Returned /\ ShapesMatch
  /\ observation_noise_scale = None
  /\ values[1] = 1 /\ values[2] = 2
  /\ Len(locs) = 2 /\ locs[1] = F(0) /\ locs[2] = F(1)
  /\ result.l = 2

\* C7: the 'identity' transformation returns, for BrownianMotion, the values stacked in
\* order; for BrownianMotionUnknownScales, params[0], params[1] and params[2:] stacked
\* in order; the parameter tuple is recovered from the output.
C7_IdentityLosesNothing ==
  pc = "identity" =>
    IF cls = "BrownianMotion"
    THEN Len(values) >= 1 =>
           /\ ext.ok
           /\ Len(ext.out) = Len(values)
           /\ \A i \in 1..Len(values) : ext.out[i] = values[i]
    ELSE Len(values) >= 3 =>
           /\ ext.ok
           /\ ext.out.innovation_noise_scale = values[1]
           /\ ext.out.observation_noise_scale = values[2]
           /\ Len(ext.out.locs) = Len(values) - 2
           /\ \A i \in 1..Len(ext.out.locs) : ext.out.locs[i] = values[i + 2]
           /\ <<ext.out.innovation_noise_scale, ext.out.observation_noise_scale>>
                \o ext.out.locs = values

\* C7's case: the transformation of an unknown-scales tuple whose scales and latent
\* values all differ from their neighbours.
C7_Witness ==
  /\ pc = "identity"
  /\ cls = "BrownianMotionUnknownScales"
  /\ values = <<1, 2, 1, 2>>
  /\ ext.ok
  /\ ext.out.locs = <<1, 2>>

---------------------------------------------------------------------------
\* Specification SpecObj: a constructed BrownianMotion or BrownianMotionUnknownScales
\* object and any sequence of calls of its methods.  `first` is a history variable:
\* the first likelihood evaluation made on the object.

\* The value tuples of the shape of the object's prior: one latent value per
\* timestep, after the two scales when they are unknown.
PriorSamples(c, ls) ==
  [1..(IF c = "BrownianMotion" THEN shape0(ls) ELSE shape0(ls) + 2) -> LatentVals]

InitObj ==
  /\ cls \in Classes
  /\ locs \in SeqsUpTo(LocVals, 1, MaxN)
  /\ innovation_noise_scale \in (IF cls = "BrownianMotion" THEN ScaleVals ELSE {None})
  /\ observation_noise_scale \in (IF cls = "BrownianMotion" THEN ScaleVals ELSE {None})
  /\ prior_dist = make_prior_dist(cls, locs, innovation_noise_scale)
  /\ log_likelihood_fn = make_log_likelihood_fn(cls, locs, observation_noise_scale)
  /\ values = <<>>
  /\ result = Zero
  /\ ext = NoExt
  /\ first = NoFirst
  /\ pc = "idle"
  /\ t = 0
  /\ new = 0
  /\ scale = None
  /\ dists = <<>>
  /\ sent = <<>>

\* The caller builds the value it is about to pass to log_likelihood.
PrepareValue ==
  /\ pc = "idle"
  /\ values' \in PriorSamples(cls, locs)
  /\ pc' = "ready"
  /\ UNCHANGED <<cls, locs, innovation_noise_scale, observation_noise_scale, prior_dist,
                 log_likelihood_fn, result, ext, first, t, new, scale, dists, sent>>

\* A likelihood that replaces the missing entries of locs in the stored array.
log_likelihood_sanitizing_in_place ==
  /\ pc = "ready"
  /\ result' = brownian_motion_log_likelihood_fn(
                 values, log_likelihood_fn.locs, log_likelihood_fn.observation_noise_scale)
  /\ log_likelihood_fn' = [log_likelihood_fn EXCEPT !.locs = safe_locs(@)]
  /\ locs' = safe_locs(locs)
  /\ first' = IF first.set THEN first
              ELSE [set |-> TRUE, value |-> values, result |-> result']
  /\ pc' = "idle"
  /\ UNCHANGED <<cls, innovation_noise_scale, observation_noise_scale, prior_dist,
                 values, ext, t, new, scale, dists, sent>>

\* log_likelihood(self, value): return self._log_likelihood_fn(value)
log_likelihood ==
  /\ pc = "ready"
  /\ result' = brownian_motion_log_likelihood_fn(
                 values, log_likelihood_fn.locs, log_likelihood_fn.observation_noise_scale)
  /\ first' = IF first.set THEN first
              ELSE [set |-> TRUE, value |-> values, result |-> result']
  /\ pc' = "idle"
  /\ UNCHANGED <<cls, locs, innovation_noise_scale, observation_noise_scale, prior_dist,
                 log_likelihood_fn, values, ext, t, new, scale, dists, sent>>

\* _prior_distribution(self): return self._prior_dist
prior_distribution ==
  /\ ext' = [ok |-> TRUE, out |-> prior_dist]
  /\ UNCHANGED <<cls, locs, innovation_noise_scale, observation_noise_scale, prior_dist,
                 log_likelihood_fn, values, result, first, pc, t, new, scale, dists, sent>>

NextObj == PrepareValue \/ log_likelihood \/ prior_distribution

SpecObj == InitObj /\ [][NextObj]_vars

\* C8: no call changes the stored prior, the stored likelihood function, locs or the
\* noise scales; log_likelihood leaves the caller's value as it was; and evaluating
\* log_likelihood again on the value of the first evaluation returns the first result,
\* whatever was called in between.
C8_Stateless ==
  [][ /\ prior_dist' = prior_dist
      /\ log_likelihood_fn' = log_likelihood_fn
      /\ locs' = locs
      /\ innovation_noise_scale' = innovation_noise_scale
      /\ observation_noise_scale' = observation_noise_scale
      /\ pc = "ready" => values' = values
      /\ (pc = "ready" /\ pc' = "idle" /\ first.set /\ first.value = values) =>
           result' = first.result ]_vars

\* C8's case: on an object whose locs has a missing entry, _prior_distribution has
\* been called and the last evaluation returned, for the value of the first
\* evaluation, the first result.
C8_Witness ==
  /\ pc = "idle"
  /\ first.set
  /\ ext.ok
  /\ values = first.value
  /\ result = first.result
  /\ result.c >= 1
  /\ \E i \in 1..Len(locs) : locs[i] = NaN

====
